---- MODULE Spec2Model ----
(***************************************************************************)
(* A model of use-ssr-computation: the server orchestrator                 *)
(* (useSSRComputation_Server), the error boundary (errorHandler.ts), the   *)
(* client hook (useSSRComputation_Client), the subscription registry and   *)
(* the build-time macro that rewrites useSSRComputation calls.             *)
(***************************************************************************)
EXTENDS Integers, Sequences, FiniteSets, TLC

\* ------------------------------------------------------------------ bounds
\* Computations return the numbers 0..MaxVal (0 is JavaScript-falsy).
MaxVal == 1
\* At most MaxImports imports of one hook instance are in flight at a time.
MaxImports == 2
\* At most MaxRegs registrations are made with the subscription registry.
MaxRegs == 4
Regs == 1..MaxRegs

\* ------------------------------------------------------------------ values
\* A JavaScript value, as far as the runtime looks at it: its type tag, a
\* number, and (for a cache entry record) its isSubscription flag.
Val(t, n, s) == [t |-> t, v |-> n, sub |-> s]
Null == Val("null", 0, FALSE)
Undefined == Val("undefined", 0, FALSE)
Num(n) == Val("num", n, FALSE)
Thenable == Val("thenable", 0, FALSE)
Observable == Val("observable", 0, FALSE)
\* the record {result: n, isSubscription: b} the client test stores
Entry(n, b) == Val("entry", n, b)

Numbers == 0..MaxVal
PlainVals == {Num(n) : n \in Numbers}
EntryVals == {Entry(n, b) : n \in Numbers, b \in BOOLEAN}

\* JavaScript truthiness: `if (x)`, `!x`, `x && ...`
Truthy(x) == CASE x.t = "null" -> FALSE
               [] x.t = "undefined" -> FALSE
               [] x.t = "num" -> x.v # 0
               [] OTHER -> TRUE

\* result && typeof result.then === 'function'
IsThenable(x) == Truthy(x) /\ x.t = "thenable"

\* ------------------------------------------------------------ dependencies
\* A dependency is a number or an identity object {uniqueId}.
NumDep(n) == [kind |-> "num", id |-> n]
ObjDep(n) == [kind |-> "obj", id |-> n]
DepLists == {<<NumDep(1)>>, <<ObjDep(2)>>}
\* the module path the client test uses (relativePathToCwd)
relativePathToCwd == "example/example.js"
Paths == {relativePathToCwd}

\* parseDependencies: an identity object becomes its uniqueId
parseDependencies(deps) ==
    [k \in DOMAIN deps |-> IF deps[k].kind = "obj" THEN NumDep(deps[k].id) ELSE deps[k]]

\* calculateCacheKey: a key that identifies (module path, dependency list)
calculateCacheKey(path, deps) == <<path, deps>>

Keys == {calculateCacheKey(p, d) : p \in Paths, d \in DepLists}
          \cup {calculateCacheKey(p, parseDependencies(d)) : p \in Paths, d \in DepLists}
EmptyCache == [k \in Keys |-> Undefined]

\* ------------------------------------------------------------------ errors
NoError == [cls |-> "none", msg |-> "", result |-> Null]
\* an exception a computation throws
PlainError == [cls |-> "Error", msg |-> "boom", result |-> Null]
\* what a throwing error handler throws
HandlerError == [cls |-> "Error", msg |-> "handler failed", result |-> Null]
InternalUseSSRComputationError(message, result) ==
    [cls |-> "InternalUseSSRComputationError", msg |-> message, result |-> result]
UnsupportedAsyncResultOnServerSideError(result) ==
    [cls |-> "UnsupportedAsyncResultOnServerSideError",
     msg |-> "UnsupportedAsyncResultOnServerSide", result |-> result]
UseSSRComputationError(message, dependencies, ssrComputationFile, error, partialResult) ==
    [cls |-> "UseSSRComputationError", msg |-> message, dependencies |-> dependencies,
     error |-> error, result |-> partialResult, ssrComputationFile |-> ssrComputationFile]

\* String(error)
ErrorToString(error) == error.cls

\* --------------------------------------------------------- error handlers
\* The handlers a host registers: the default `() => {}`, one that records what
\* it is given, and one that itself throws.
DefaultHandler == "default"
Handlers == {DefaultHandler, "recording", "throwing"}
HandlerThrows(h) == h = "throwing"
\* typeof errorHandler === 'function'
IsFunction(h) == h \in Handlers

\* handleError(error) with `h` registered: the calls delivered to handlers, what
\* console.error logged, and whether the call raised.
handleError(h, error) ==
    IF IsFunction(h)
    THEN [delivered |-> <<[handler |-> h, error |-> error]>>, logged |-> <<>>,
          raised |-> HandlerThrows(h)]
    ELSE [delivered |-> <<>>, logged |-> <<error>>, raised |-> FALSE]

\* ------------------------------------------------------ server computations
\* The functions handed to the server orchestrator: one that returns the number
\* v, one that returns a pending promise, one that throws, and one that throws
\* an InternalUseSSRComputationError carrying the partial result v.
Fn(kind, n) == [kind |-> kind, v |-> n]
ServerFns == {Fn("value", n) : n \in Numbers} \cup {Fn("thenable", 0), Fn("throws", 0)}
             \cup {Fn("throwsInternal", n) : n \in Numbers}

\* fn(...dependencies)
Apply(fn, dependencies) ==
    CASE fn.kind = "value" -> [raised |-> FALSE, val |-> Num(fn.v), err |-> NoError]
      [] fn.kind = "thenable" -> [raised |-> FALSE, val |-> Thenable, err |-> NoError]
      [] fn.kind = "throws" -> [raised |-> TRUE, val |-> Null, err |-> PlainError]
      [] OTHER -> [raised |-> TRUE, val |-> Null,
                   err |-> InternalUseSSRComputationError("internal", Num(fn.v))]

\* The outcome of an orchestrator call: what it returned or raised, the store
\* after it, whether the computation ran, and what reached the handlers.
Outcome(ret, raised, err, c, invoked, delivered, logged) ==
    [ret |-> ret, raised |-> raised, err |-> err, cache |-> c, invoked |-> invoked,
     delivered |-> delivered, logged |-> logged]

\* ServerCacheWrite, were the write guarded by `if (result)`
ServerCacheWrite_TruthyOnly(c, cacheKey, result, h) ==
    IF IsThenable(result)
    THEN LET r == handleError(h, UnsupportedAsyncResultOnServerSideError(result))
         IN  Outcome(result, r.raised, IF r.raised THEN HandlerError ELSE NoError, c,
                     TRUE, r.delivered, r.logged)
    ELSE Outcome(result, FALSE, NoError,
                 IF Truthy(result) THEN [c EXCEPT ![cacheKey] = result] ELSE c, TRUE, <<>>, <<>>)

\* ServerCacheWrite, were the promise check missing
ServerCacheWrite_NoPromiseCheck(c, cacheKey, result, h) ==
    Outcome(result, FALSE, NoError, [c EXCEPT ![cacheKey] = result], TRUE, <<>>, <<>>)

\* useSSRComputation_Server, lines 10-20: the write of the result into the store
ServerCacheWrite(c, cacheKey, result, h) ==
    IF IsThenable(result)
    THEN LET r == handleError(h, UnsupportedAsyncResultOnServerSideError(result))
         IN  Outcome(result, r.raised, IF r.raised THEN HandlerError ELSE NoError, c,
                     TRUE, r.delivered, r.logged)
    ELSE Outcome(result, FALSE, NoError, [c EXCEPT ![cacheKey] = result], TRUE, <<>>, <<>>)

\* useSSRComputation_Server, were the skip option ignored
useSSRComputation_Server_NoSkip(fn, dependencies, skip, path, c, has, h) ==
    LET r == Apply(fn, dependencies)
    IN  IF r.raised THEN Outcome(Null, TRUE, r.err, c, TRUE, <<>>, <<>>)
        ELSE IF has
             THEN ServerCacheWrite(c, calculateCacheKey(path, dependencies), r.val, h)
             ELSE Outcome(r.val, FALSE, NoError, c, TRUE, <<>>, <<>>)

\* useSSRComputation_Server, lines 5-23
useSSRComputation_Server(fn, dependencies, skip, path, c, has, h) ==
    IF skip THEN Outcome(Null, FALSE, NoError, c, FALSE, <<>>, <<>>)
    ELSE LET r == Apply(fn, dependencies)
         IN  IF r.raised THEN Outcome(Null, TRUE, r.err, c, TRUE, <<>>, <<>>)
             ELSE IF has
                  THEN ServerCacheWrite(c, calculateCacheKey(path, dependencies),
                                        r.val, h)
                  ELSE Outcome(r.val, FALSE, NoError, c, TRUE, <<>>, <<>>)

\* setErrorHandler, were only the first registration to take effect
NewHandler_KeepsFirst(current, handler) ==
    IF current = DefaultHandler THEN handler ELSE current

\* setErrorHandler, line 31: the module-level handler after `errorHandler = handler`
NewHandler(current, handler) == handler

\* wrapErrorHandler: `inner` is the outcome of the wrapped call
wrapErrorHandler(inner, dependencies, path, h) ==
    IF ~inner.raised THEN inner
    ELSE LET internal == inner.err.cls = "InternalUseSSRComputationError"
             message == IF internal THEN inner.err.msg ELSE ErrorToString(inner.err)
             result == IF internal THEN inner.err.result ELSE Null
             error == UseSSRComputationError(message, dependencies, path, inner.err, result)
             r == handleError(h, error)
         IN  Outcome(IF r.raised THEN Null ELSE result, r.raised,
                     IF r.raised THEN HandlerError ELSE NoError, inner.cache, inner.invoked,
                     inner.delivered \o r.delivered, inner.logged \o r.logged)

\* -------------------------------------------------------------- client hook
\* The loaders a component passes as importFn, and the default export of the
\* module each resolves to: a computation that returns the current plain value,
\* and one that returns an observable-like object.
ImportFns == {"importPlain", "importObservable"}
ModuleDefault(importFn) == IF importFn = "importPlain" THEN "plainFn" ELSE "observableFn"
\* fn(...parsedDependencies)
CallFn(fn, cur) == IF fn = "plainFn" THEN Num(cur) ELSE Observable

Props(importFn, dependencies, skip) ==
    [importFn |-> importFn, dependencies |-> dependencies, skip |-> skip]
AllProps == {Props(f, d, s) : f \in ImportFns, d \in DepLists, s \in BOOLEAN}

NoMemo == [set |-> FALSE, fn |-> "undefined", cacheKey |-> <<>>, skip |-> FALSE, value |-> Null]
NoEffect == [set |-> FALSE, isCacheHit |-> Undefined, importFn |-> "", skip |-> FALSE]

\* A hook instance before its first render: useState() is undefined, nothing is
\* memoized, no effect has run.
FreshHook ==
    [status |-> "unmounted", props |-> Props("importPlain", <<NumDep(1)>>, FALSE),
     fn |-> "undefined", memo |-> NoMemo, effect |-> NoEffect, returned |-> Null,
     missed |-> FALSE, invoked |-> FALSE, unskipped |-> FALSE]

\* cache?.[cacheKey]
CacheLookup(c, has, cacheKey) == IF has THEN c[cacheKey] ELSE Undefined

\* the key a hook instance with these props looks up (lines 8 and 13)
ClientKey(props) == calculateCacheKey(relativePathToCwd, parseDependencies(props.dependencies))

\* The hook's return value, lines 37-41
HookReturn(isCacheHit, skip, result) ==
    IF Truthy(isCacheHit) /\ ~skip THEN isCacheHit ELSE result

\* The effect's early return, were skip left out of it
EffectReturnsEarly_IgnoresSkip(isCacheHit, skip) == Truthy(isCacheHit)

\* The effect's early return, line 16: whether the effect starts no import
EffectReturnsEarly(isCacheHit, skip) == Truthy(isCacheHit) \/ skip

\* useMemo's dependency check, were the memo recomputed at every render
MemoStale_Always(memo, fn, cacheKey, skip) == TRUE

\* useMemo's dependency check, line 35: whether [fn, cacheKey, skip] differ from
\* the dependencies of the memoized value
MemoStale(memo, fn, cacheKey, skip) ==
    ~memo.set \/ memo.fn # fn \/ memo.cacheKey # cacheKey \/ memo.skip # skip

\* One render of the hook body (lines 6-41) with the effect that React runs after
\* it (lines 15-29): the instance after the render, whether the memo invoked the
\* computation, whether the effect re-ran (cleaning up the previous one),
\* whether it called importFn, and whether the render subscribed to anything
\* (it never does: the hook body holds no subscribe call), and the store after
\* it (the hook body writes nothing into it). The fields `missed`, `invoked`
\* and `unskipped` record history only: some render of this instance had no
\* store, found no entry at its key, or had skip set; this render invoked the
\* computation; some render of this instance had skip unset.
RenderCore(h, props, c, has, cur) ==
    LET skip == props.skip
        cacheKey == ClientKey(props)
        isCacheHit == CacheLookup(c, has, cacheKey)
        recompute == MemoStale(h.memo, h.fn, cacheKey, skip)
        invoked == recompute /\ h.fn # "undefined" /\ ~skip
        result == IF recompute
                  THEN (IF h.fn = "undefined" \/ skip THEN Null ELSE CallFn(h.fn, cur))
                  ELSE h.memo.value
        effect == [set |-> TRUE, isCacheHit |-> isCacheHit, importFn |-> props.importFn,
                   skip |-> skip]
        rerun == h.effect # effect
    IN  [hook |-> [status |-> "mounted", props |-> props, fn |-> h.fn,
                   memo |-> [set |-> TRUE, fn |-> h.fn, cacheKey |-> cacheKey,
                             skip |-> skip, value |-> result],
                   effect |-> effect,
                   returned |-> HookReturn(isCacheHit, skip, result),
                   missed |-> h.missed \/ ~has \/ isCacheHit = Undefined \/ skip,
                   invoked |-> invoked,
                   unskipped |-> h.unskipped \/ ~skip],
         cache |-> c,
         invoked |-> invoked,
         rerun |-> rerun,
         imports |-> rerun /\ ~EffectReturnsEarly(isCacheHit, skip),
         subscribes |-> FALSE]

\* the render, were it to subscribe as soon as the computation's result is
\* observable-like
RenderHook_EagerSubscribe(h, props, c, has, cur) ==
    LET r == RenderCore(h, props, c, has, cur)
    IN  [r EXCEPT !.subscribes = (r.hook.memo.value = Observable)]

\* the render, were it to store what it computed at its key
RenderHook_WritesCache(h, props, c, has, cur) ==
    LET r == RenderCore(h, props, c, has, cur)
    IN  [r EXCEPT !.cache = IF r.invoked
                            THEN [c EXCEPT ![ClientKey(props)] = r.hook.memo.value]
                            ELSE c]

\* useSSRComputation_Client as an instance renders it
RenderHook(h, props, c, has, cur) == RenderCore(h, props, c, has, cur)

\* A pending import: the closure of the effect that started it
Closure(importFn) == [isMounted |-> TRUE, importFn |-> importFn]

\* The effect's cleanup, lines 26-28, were it missing
Cleanup_Missing(pendingImports) == pendingImports

\* The effect's cleanup, lines 26-28: isMounted = false in the closure of the
\* effect being torn down (closures torn down earlier are false already)
Cleanup(pendingImports) ==
    [k \in DOMAIN pendingImports |-> [pendingImports[k] EXCEPT !.isMounted = FALSE]]

\* The import's then-callback, lines 19-24, without the isMounted check
ImportThen_NoMountCheck(closure, fn) == ModuleDefault(closure.importFn)

\* The import's then-callback, lines 19-24: the fn state after it
ImportThen(closure, fn) ==
    IF ~closure.isMounted THEN fn ELSE ModuleDefault(closure.importFn)

RemoveAt(seq, k) == [x \in 1..(Len(seq) - 1) |-> IF x < k THEN seq[x] ELSE seq[x + 1]]

\* ------------------------------------------------------------------ the macro
\* At most MaxCalls useSSRComputation calls are written in one source file.
MaxCalls == 2

\* A syntax node, as far as the macro looks at it: its type, its text (the
\* value of a literal, the name of an identifier, the source of an import) and
\* its attributes (the properties of an object expression, the comment of an
\* import).
Node(type, value, properties) == [type |-> type, value |-> value, properties |-> properties]
Attr(key, type, value) == [key |-> key, type |-> type, value |-> value]
StringLiteral(value) == Node("StringLiteral", value, <<>>)
Identifier(name) == Node("Identifier", name, <<>>)
ArrayExpression(text) == Node("ArrayExpression", text, <<>>)
ObjectExpression(properties) == Node("ObjectExpression", "", properties)
\* () => import(/* webpackChunkName: "<chunk>" */ "<source>")
DynamicImport(source, chunk) ==
    Node("ArrowFunctionExpression", source, <<Attr("webpackChunkName", "CommentBlock", chunk)>>)

\* The computation files the calls name: two that exist with the
\* .ssr-computation suffix, one with the suffix that does not exist, and one
\* that exists without the suffix.
SsrFileA == "./a.ssr-computation"
SsrFileB == "./b.ssr-computation"
Filenames == {SsrFileA, SsrFileB, "./missing.ssr-computation", "./plain"}
\* extensions.some(extension => fs.existsSync(absolutePath + extension))
FileExists(filename) == filename \in {SsrFileA, SsrFileB, "./plain"}
\* importedFunctionName.endsWith('.ssr-computation')
EndsWithDelimeter(filename) == filename # "./plain"
\* the file name without the delimeter, every non-alphanumeric character
\* replaced by an underscore
ImportedFunctionName(filename) ==
    CASE filename = SsrFileA -> "__a"
      [] filename = SsrFileB -> "__b"
      [] OTHER -> "__missing"
\* path.relative(process.cwd(), path.resolve(path.dirname(currentFilename), filename))
\* for a source file in <cwd>/tests
RelativeToCwd(filename) ==
    CASE filename = SsrFileA -> "tests/a.ssr-computation"
      [] filename = SsrFileB -> "tests/b.ssr-computation"
      [] filename = "./plain" -> "tests/plain"
      [] OTHER -> "tests/missing.ssr-computation"

\* The options objects the calls pass, and an argument that is no object.
CustomChunkOptions ==
    ObjectExpression(<<Attr("webpackChunkName", "StringLiteral", "custom-chunk-name")>>)
SkipOptions == ObjectExpression(<<Attr("skip", "BooleanLiteral", "true")>>)
ComputedOptions == ObjectExpression(<<Attr("skip", "Identifier", "flag")>>)
OptionNodes ==
    {ObjectExpression(<<>>), CustomChunkOptions, SkipOptions, ComputedOptions, Identifier("opts")}
DependenciesNode == ArrayExpression("[]")

\* The useSSRComputation calls of a source file, each the list of its arguments.
CallSites ==
    {<<StringLiteral(f), DependenciesNode>> : f \in Filenames}
        \cup {<<StringLiteral(SsrFileA), DependenciesNode, o>> : o \in OptionNodes}
        \cup {<<StringLiteral(SsrFileB), DependenciesNode, SkipOptions>>,
              <<Identifier("file"), DependenciesNode>>,
              <<StringLiteral(SsrFileA)>>,
              <<StringLiteral(SsrFileA), DependenciesNode, SkipOptions, Identifier("extra")>>}
SourceFiles == UNION {[1..n -> CallSites] : n \in 1..MaxCalls}
\* pluginOptions.useSSRComputation.side; "none": the option is missing
Sides == {"client", "server", "none"}

isPrimitiveObjectProperty(property) ==
    property.type \in {"StringLiteral", "BooleanLiteral", "NumericLiteral"}

\* parseToOptions(optionsNode).webpackChunkName; "" when the key is absent
OptionsWebpackChunkName(optionsNode) ==
    IF \E k \in DOMAIN optionsNode.properties :
           optionsNode.properties[k].key = "webpackChunkName"
    THEN LET k == CHOOSE j \in DOMAIN optionsNode.properties :
                      optionsNode.properties[j].key = "webpackChunkName"
         IN  optionsNode.properties[k].value
    ELSE ""

\* (options.webpackChunkName ? options.webpackChunkName : 'default') + '-ssr-computations'
WebpackChunkName(name) ==
    IF name = "custom-chunk-name" THEN "custom-chunk-name-ssr-computations"
    ELSE "default-ssr-computations"

\* `useSSRComputation_${side.charAt(0).toUpperCase() + side.slice(1)}`
RuntimeHookName(side) ==
    IF side = "server" THEN "useSSRComputation_Server" ELSE "useSSRComputation_Client"
RuntimeHookModule(side) ==
    IF side = "server" THEN "use-ssr-computation.runtime/lib/useSSRComputation_Server"
    ELSE "use-ssr-computation.runtime/lib/useSSRComputation_Client"

\* addImportStatement: the program's import declarations after it
addImportStatement(importName, importPath, isDefault, body) ==
    IF \E k \in DOMAIN body : body[k].source = importPath THEN body
    ELSE <<[name |-> importName, source |-> importPath, isDefault |-> isDefault]>> \o body

\* what the handler made of one reference: it threw, or the call's callee and
\* arguments and the program's import declarations after it
MacroThrew == [threw |-> TRUE, callee |-> "", arguments |-> <<>>, body |-> <<>>]
Rewritten(callee, arguments, body) ==
    [threw |-> FALSE, callee |-> callee, arguments |-> arguments, body |-> body]

\* The handler's body for one reference, lines 173-244: `arguments` are the
\* call's arguments, `body` the import declarations of the program so far.
RewriteReference(side, arguments, body) ==
    IF Len(arguments) < 2 \/ Len(arguments) > 3 THEN MacroThrew
    ELSE LET filenameNode == Head(arguments)
             shifted == Tail(arguments)
             optionsNode == IF Len(shifted) = 2 THEN shifted[2] ELSE ObjectExpression(<<>>)
             remaining == IF Len(shifted) = 2 THEN SubSeq(shifted, 1, 1) ELSE shifted
         IN  IF filenameNode.type # "StringLiteral" THEN MacroThrew
             ELSE IF optionsNode.type # "ObjectExpression" THEN MacroThrew
             ELSE IF \E k \in DOMAIN optionsNode.properties :
                         ~isPrimitiveObjectProperty(optionsNode.properties[k])
                  THEN MacroThrew
             ELSE IF ~FileExists(filenameNode.value) THEN MacroThrew
             ELSE LET chunk == WebpackChunkName(OptionsWebpackChunkName(optionsNode))
                      hookImported == addImportStatement(RuntimeHookName(side),
                                          RuntimeHookModule(side), TRUE, body)
                      path == StringLiteral(RelativeToCwd(filenameNode.value))
                  IN  IF side = "server"
                      THEN IF ~EndsWithDelimeter(filenameNode.value) THEN MacroThrew
                           ELSE Rewritten(RuntimeHookName(side),
                                    <<Identifier(ImportedFunctionName(filenameNode.value))>>
                                        \o remaining \o <<path>>,
                                    addImportStatement(
                                        ImportedFunctionName(filenameNode.value),
                                        filenameNode.value, TRUE, hookImported))
                      ELSE Rewritten(RuntimeHookName(side),
                               <<DynamicImport(filenameNode.value, chunk)>>
                                   \o remaining \o <<path>>,
                               hookImported)

\* the outcome of a run of the macro over a source file: it threw, or the
\* rewritten calls and the import declarations it added
NoTransform == [ran |-> FALSE]
Transform(side, file, threw, calls, body) ==
    [ran |-> TRUE, side |-> side, source |-> file, threw |-> threw, calls |-> calls,
     body |-> body]

\* The macro handler, lines 146-247, over the references of `file` in order
macro(side, file) ==
    LET step[k \in 0..Len(file)] ==
            IF k = 0 THEN [threw |-> FALSE, calls |-> <<>>, body |-> <<>>]
            ELSE IF step[k - 1].threw THEN step[k - 1]
            ELSE LET r == RewriteReference(side, file[k], step[k - 1].body)
                 IN  IF r.threw THEN [threw |-> TRUE, calls |-> <<>>, body |-> <<>>]
                     ELSE [threw |-> FALSE,
                           calls |-> Append(step[k - 1].calls,
                                            [callee |-> r.callee, arguments |-> r.arguments]),
                           body |-> r.body]
        last == step[Len(file)]
    IN  IF side \notin {"client", "server"} THEN Transform(side, file, TRUE, <<>>, <<>>)
        ELSE Transform(side, file, last.threw, last.calls, last.body)

VARIABLES
    hasCache,       \* whether useSSRCache() yields a store
    cache,          \* the Cache Store: key -> value (Undefined: no entry)
    errorHandler,   \* errorHandler.ts: the module-level errorHandler
    registered,     \* the handler most recently passed to setErrorHandler
    handlerSet,     \* setErrorHandler has been called
    lastCall,       \* the last orchestrator call: its arguments and its outcome
    hook,           \* the client hook instance: its props, state, memo and effect
    imports,        \* the instance's imports in flight, each with its closure
    computationLoaded, \* the instance's importFn has been called
    called,         \* the instance's computation function has been invoked
    currentValue,   \* the value the client computation currently yields
    isSubscribed,   \* the instance holds a live subscription
    lastOp,         \* the last client-side event
    produced,       \* what the last instance to unmount had produced, and at which key
    activated,      \* fetchSubscriptions() has been called
    pending,        \* the registry's pending registrations, in order
    nextReg,        \* the number of registrations made so far
    runCount,       \* how many times each registration's activate has run
    cancelled,      \* the registrations cancelled while pending
    lastFlush,      \* the pending list the last fetchSubscriptions() found, and
                    \* whether the registry has been left alone since
    transformed     \* the last run of the macro: its source file and what it made of it

serverVars == <<hasCache, cache, errorHandler, registered, handlerSet, lastCall>>
clientVars == <<hook, imports, computationLoaded, called, currentValue, isSubscribed, lastOp,
                produced>>
registryVars == <<activated, pending, nextReg, runCount, cancelled, lastFlush>>
macroVars == <<transformed>>
vars == <<serverVars, clientVars, registryVars, macroVars>>

NoCall == [op |-> "none"]
Call(op, wrapped, fn, deps, skip, path, pre, h, reg, out) ==
    [op |-> op, wrapped |-> wrapped, fn |-> fn, dependencies |-> deps, skip |-> skip,
     path |-> path, pre |-> pre, handler |-> h, registered |-> reg, out |-> out]

NothingProduced == [set |-> FALSE, cacheKey |-> <<>>, value |-> Null]

ClientIdle ==
    /\ hook = FreshHook
    /\ imports = <<>>
    /\ computationLoaded = FALSE
    /\ called = FALSE
    /\ currentValue = 0
    /\ isSubscribed = FALSE
    /\ lastOp = "init"
    /\ produced = NothingProduced

RegistryIdle ==
    /\ activated = FALSE
    /\ pending = <<>>
    /\ nextReg = 0
    /\ runCount = [r \in Regs |-> 0]
    /\ cancelled = {}
    /\ lastFlush = [fresh |-> FALSE, list |-> <<>>]

MacroIdle == transformed = NoTransform

InitServer ==
    /\ hasCache \in BOOLEAN
    /\ cache = EmptyCache
    /\ errorHandler = DefaultHandler
    /\ registered = DefaultHandler
    /\ handlerSet = FALSE
    /\ lastCall = NoCall
    /\ ClientIdle
    /\ RegistryIdle
    /\ MacroIdle

\* a render calls the bare server orchestrator
RunServer(fn, deps, skip, path) ==
    LET out == useSSRComputation_Server(fn, deps, skip, path, cache, hasCache, errorHandler)
    IN  /\ cache' = out.cache
        /\ lastCall' = Call("server", FALSE, fn, deps, skip, path, cache, errorHandler, registered, out)
        /\ UNCHANGED <<hasCache, errorHandler, registered, handlerSet, clientVars, registryVars,
                     macroVars>>

\* a render calls wrapErrorHandler(useSSRComputation_Server)
RunWrappedServer(fn, deps, skip, path) ==
    LET inner == useSSRComputation_Server(fn, deps, skip, path, cache, hasCache, errorHandler)
        out == wrapErrorHandler(inner, deps, path, errorHandler)
    IN  /\ cache' = out.cache
        /\ lastCall' = Call("server", TRUE, fn, deps, skip, path, cache, errorHandler, registered, out)
        /\ UNCHANGED <<hasCache, errorHandler, registered, handlerSet, clientVars, registryVars,
                     macroVars>>

setErrorHandler(handler) ==
    /\ errorHandler' = NewHandler(errorHandler, handler)
    /\ registered' = handler
    /\ handlerSet' = TRUE
    /\ UNCHANGED <<hasCache, cache, lastCall, clientVars, registryVars, macroVars>>

NextServer ==
    \/ \E fn \in ServerFns, deps \in DepLists, skip \in BOOLEAN, path \in Paths :
          RunServer(fn, deps, skip, path)
    \/ \E fn \in ServerFns, deps \in DepLists, skip \in BOOLEAN, path \in Paths :
          RunWrappedServer(fn, deps, skip, path)
    \/ \E handler \in Handlers : setErrorHandler(handler)

SpecServer == InitServer /\ [][NextServer]_vars

\* ----------------------------------------------------- subscription registry
\* fetchSubscriptions(): every pending activate has run once more
RunPending(counts, list) ==
    [r \in Regs |-> counts[r] + Cardinality({k \in DOMAIN list : list[k] = r})]

\* the pending list a flush leaves, were the list not cleared
AfterFlush_NotCleared(list) == list

\* the pending list a flush leaves
AfterFlush(list) == <<>>

\* the pending list after the handle of registration r is cancelled
WithoutReg(list, r) == SelectSeq(list, LAMBDA x : x # r)

registerPending ==
    /\ nextReg < MaxRegs
    /\ nextReg' = nextReg + 1
    /\ pending' = Append(pending, nextReg + 1)
    /\ lastFlush' = [lastFlush EXCEPT !.fresh = FALSE]
    /\ UNCHANGED <<activated, runCount, cancelled, serverVars, clientVars, macroVars>>

cancel(r) ==
    /\ r <= nextReg
    /\ pending' = WithoutReg(pending, r)
    /\ cancelled' = IF \E k \in DOMAIN pending : pending[k] = r
                    THEN cancelled \cup {r} ELSE cancelled
    /\ lastFlush' = [lastFlush EXCEPT !.fresh = FALSE]
    /\ UNCHANGED <<activated, nextReg, runCount, serverVars, clientVars, macroVars>>

fetchSubscriptions ==
    /\ activated' = TRUE
    /\ runCount' = RunPending(runCount, pending)
    /\ lastFlush' = [fresh |-> TRUE, list |-> pending]
    /\ pending' = AfterFlush(pending)
    /\ lastOp' = "fetch"
    /\ UNCHANGED <<nextReg, cancelled, serverVars, hook, imports, computationLoaded, called,
                   currentValue, isSubscribed, produced, macroVars>>

InitRegistry ==
    /\ hasCache = TRUE
    /\ cache = EmptyCache
    /\ errorHandler = DefaultHandler
    /\ registered = DefaultHandler
    /\ handlerSet = FALSE
    /\ lastCall = NoCall
    /\ ClientIdle
    /\ RegistryIdle
    /\ MacroIdle

NextRegistry ==
    \/ registerPending
    \/ \E r \in Regs : cancel(r)
    \/ fetchSubscriptions

SpecRegistry == InitRegistry /\ [][NextRegistry]_vars

\* ------------------------------------------------------- client hook: events
\* The stores a server pass or the host hands to the client. At the key of the
\* tests' dependencies [1]: nothing, a raw result (0 or MaxVal) as the server
\* orchestrator writes it, or an entry record as cacheValue writes it. At the
\* other key the client looks up: nothing, or a subscription's entry record.
StoredVals == {Undefined, Num(0), Num(MaxVal), Entry(MaxVal, FALSE), Entry(MaxVal, TRUE)}
ClientKeys == {ClientKey(p) : p \in AllProps}
TestKey == calculateCacheKey(relativePathToCwd, <<NumDep(1)>>)
ClientStores ==
    {c \in [Keys -> StoredVals] :
        /\ \A k \in Keys \ ClientKeys : c[k] = Undefined
        /\ \A k \in ClientKeys \ {TestKey} : c[k] \in {Undefined, Entry(MaxVal, TRUE)}}

InitClient ==
    /\ hasCache \in BOOLEAN
    /\ cache \in ClientStores
    /\ (~hasCache => cache = EmptyCache)
    /\ errorHandler = DefaultHandler
    /\ registered = DefaultHandler
    /\ handlerSet = FALSE
    /\ lastCall = NoCall
    /\ ClientIdle
    /\ RegistryIdle
    /\ MacroIdle

\* what a render r of the instance leaves behind, `left` being the imports still
\* in flight before it
Rendered(r, left, op) ==
    /\ r.imports => Len(left) < MaxImports
    /\ hook' = r.hook
    /\ cache' = r.cache
    /\ imports' = (IF r.rerun THEN Cleanup(left) ELSE left)
                  \o (IF r.imports THEN <<Closure(r.hook.props.importFn)>> ELSE <<>>)
    /\ isSubscribed' = (isSubscribed \/ r.subscribes)
    /\ lastOp' = op

\* renderHook(() => useSSRComputation_Client(importFn, dependencies, options, path))
Mount(props) ==
    /\ hook.status = "unmounted"
    /\ LET r == RenderHook(FreshHook, props, cache, hasCache, currentValue)
       IN  /\ Rendered(r, imports, "mount")
           /\ computationLoaded' = r.imports
           /\ called' = r.invoked
    /\ UNCHANGED <<currentValue, produced, hasCache, errorHandler, registered, handlerSet,
                   lastCall, registryVars, macroVars>>

\* rerender(), with the same or with new props
Rerender(props) ==
    /\ hook.status = "mounted"
    /\ LET r == RenderHook(hook, props, cache, hasCache, currentValue)
       IN  /\ Rendered(r, imports, "rerender")
           /\ computationLoaded' = (computationLoaded \/ r.imports)
           /\ called' = (called \/ r.invoked)
    /\ UNCHANGED <<currentValue, produced, hasCache, errorHandler, registered, handlerSet,
                   lastCall, registryVars, macroVars>>

\* the promise of import k resolves: the then-callback runs, and a change of the
\* fn state re-renders the mounted instance
ImportResolve(k) ==
    /\ k \in DOMAIN imports
    /\ LET fn == ImportThen(imports[k], hook.fn)
           left == RemoveAt(imports, k)
       IN  IF fn = hook.fn
           THEN /\ imports' = left
                /\ lastOp' = "importResolve"
                /\ UNCHANGED <<hook, cache, computationLoaded, called, isSubscribed>>
           ELSE IF hook.status = "mounted"
           THEN LET r == RenderHook([hook EXCEPT !.fn = fn], hook.props, cache, hasCache,
                                    currentValue)
                IN  /\ Rendered(r, left, "importResolve")
                    /\ computationLoaded' = (computationLoaded \/ r.imports)
                    /\ called' = (called \/ r.invoked)
           ELSE /\ hook' = [hook EXCEPT !.fn = fn]
                /\ imports' = left
                /\ lastOp' = "importResolve"
                /\ UNCHANGED <<cache, computationLoaded, called, isSubscribed>>
    /\ UNCHANGED <<currentValue, produced, hasCache, errorHandler, registered, handlerSet,
                   lastCall, registryVars, macroVars>>

\* unmount(): React runs the effect's cleanup
Unmounting ==
    /\ hook.status = "mounted"
    /\ hook' = [hook EXCEPT !.status = "unmounted"]
    /\ imports' = Cleanup(imports)
    /\ lastOp' = "unmount"
    /\ UNCHANGED <<computationLoaded, called, currentValue, isSubscribed, serverVars,
                   registryVars, macroVars>>

Unmount == Unmounting /\ UNCHANGED produced

\* unmount(), with a record of what the instance had produced: the value it
\* computed, when that is still the computation's current value
UnmountProduced ==
    /\ Unmounting
    /\ produced' = IF hook.memo.value = Num(currentValue) /\ ~hook.props.skip
                   THEN [set |-> TRUE, cacheKey |-> ClientKey(hook.props),
                         value |-> hook.memo.value]
                   ELSE produced

\* the computation's value changes; nothing the hook registered is told of it
emitNewValue(newValue) ==
    /\ currentValue' = newValue
    /\ lastOp' = "emit"
    /\ UNCHANGED <<hook, imports, computationLoaded, called, isSubscribed, produced,
                   serverVars, registryVars, macroVars>>

NextClient ==
    \/ \E props \in AllProps : Mount(props)
    \/ \E props \in AllProps : Rerender(props)
    \/ \E k \in 1..MaxImports : ImportResolve(k)
    \/ Unmount
    \/ \E newValue \in Numbers : emitNewValue(newValue)
    \/ fetchSubscriptions

SpecClient == InitClient /\ [][NextClient]_vars

\* Mounting again after an unmount, from the empty store of the tests'
\* beforeEach (setSSRCache({})), with what each instance produced on record.
InitRemount ==
    /\ hasCache = TRUE
    /\ cache = EmptyCache
    /\ errorHandler = DefaultHandler
    /\ registered = DefaultHandler
    /\ handlerSet = FALSE
    /\ lastCall = NoCall
    /\ ClientIdle
    /\ RegistryIdle
    /\ MacroIdle

NextRemount ==
    \/ \E props \in AllProps : Mount(props)
    \/ \E props \in AllProps : Rerender(props)
    \/ \E k \in 1..MaxImports : ImportResolve(k)
    \/ UnmountProduced
    \/ \E newValue \in Numbers : emitNewValue(newValue)
    \/ fetchSubscriptions

SpecRemount == InitRemount /\ [][NextRemount]_vars

\* ------------------------------------------------------------ macro events
InitMacro ==
    /\ hasCache = TRUE
    /\ cache = EmptyCache
    /\ errorHandler = DefaultHandler
    /\ registered = DefaultHandler
    /\ handlerSet = FALSE
    /\ lastCall = NoCall
    /\ ClientIdle
    /\ RegistryIdle
    /\ MacroIdle

\* babel runs the macro over a source file, with the configured side
TransformFile(side, file) ==
    /\ transformed' = macro(side, file)
    /\ UNCHANGED <<serverVars, clientVars, registryVars>>

NextMacro == \E side \in Sides, file \in SourceFiles : TransformFile(side, file)

SpecMacro == InitMacro /\ [][NextMacro]_vars

\* ------------------------------------------------- claims: server orchestrator
ServerRan == lastCall.op = "server" /\ ~lastCall.skip
ServerKey == calculateCacheKey(lastCall.path, lastCall.dependencies)

\* C3: after the server orchestrator ran a computation whose return value is not
\* thenable, with a store present and skip unset, the store maps the key derived
\* from (module path, dependencies) to that return value and every other key is
\* as it was before the call.
C3_ServerWritesResult ==
    (ServerRan /\ hasCache /\ lastCall.fn.kind = "value")
        => /\ cache[ServerKey] = Num(lastCall.fn.v)
           /\ lastCall.out.ret = Num(lastCall.fn.v)
           /\ \A k \in Keys \ {ServerKey} : cache[k] = lastCall.pre[k]

C3_Witness ==
    /\ ServerRan /\ hasCache /\ lastCall.fn.kind = "value"
    /\ lastCall.pre[ServerKey] # Num(lastCall.fn.v)
    /\ \E k \in Keys \ {ServerKey} : lastCall.pre[k] # Undefined

\* C4: after the server orchestrator ran a computation that returned a thenable,
\* with a store present, the store is as it was before the call (nothing is
\* written at the derived key) and the handler registered at the time of the
\* call was called with an UnsupportedAsyncResultOnServerSide error.
C4_ThenableNotCached ==
    (ServerRan /\ hasCache /\ lastCall.fn.kind = "thenable")
        => /\ cache = lastCall.pre
           /\ Len(lastCall.out.delivered) >= 1
           /\ lastCall.out.delivered[1].handler = lastCall.handler
           /\ lastCall.out.delivered[1].error
                  = UnsupportedAsyncResultOnServerSideError(Thenable)

C4_Witness ==
    /\ ServerRan /\ hasCache /\ lastCall.fn.kind = "thenable"
    /\ lastCall.handler = "recording"
    /\ lastCall.pre[ServerKey] # Undefined

\* C5: a call of a wrapped orchestrator never raises to its caller, whichever
\* handler is registered.
C5_WrappedNeverRaises ==
    (lastCall.op = "server" /\ lastCall.wrapped) => ~lastCall.out.raised

\* C16: a call of the server orchestrator with options.skip set returns null,
\* does not invoke the computation function, leaves the store as it was and
\* reports no error, whatever the computation would have done.
C16_ServerSkipDoesNothing ==
    (lastCall.op = "server" /\ lastCall.skip)
        => /\ lastCall.out.ret = Null
           /\ ~lastCall.out.invoked
           /\ cache = lastCall.pre
           /\ lastCall.out.delivered = <<>>
           /\ lastCall.out.logged = <<>>
           /\ ~lastCall.out.raised

C16_Witness ==
    /\ lastCall.op = "server" /\ lastCall.skip /\ ~lastCall.wrapped /\ hasCache
    /\ lastCall.fn.kind = "thenable"
    /\ lastCall.handler = "recording"

\* the props of a client hook given the module path and dependency list of the
\* last server call
ClientPropsOfCall == Props("importPlain", lastCall.dependencies, FALSE)

\* C17: the key under which the server orchestrator wrote its result for a
\* module path and dependency list is the key a client hook looks up for the
\* same path and list, and the client finds the entry written there as a cache
\* hit (its effect starts no import).
C17_ServerEntryHitByClient ==
    (ServerRan /\ hasCache /\ lastCall.fn.kind = "value")
        => /\ ServerKey = ClientKey(ClientPropsOfCall)
           /\ EffectReturnsEarly(CacheLookup(cache, hasCache, ClientKey(ClientPropsOfCall)),
                                 ClientPropsOfCall.skip)

\* C18: a call of the server orchestrator whose computation returned a thenable
\* returns null to its caller, not the pending value.
C18_ThenableReturnsNull ==
    (ServerRan /\ lastCall.fn.kind = "thenable" /\ ~lastCall.out.raised)
        => lastCall.out.ret = Null

\* the outcome of the call that the last wrapped call wrapped, and the handler
\* calls the wrapper itself made
InnerOfCall ==
    useSSRComputation_Server(lastCall.fn, lastCall.dependencies, lastCall.skip, lastCall.path,
                             lastCall.pre, hasCache, lastCall.handler)
WrapperDelivered ==
    SubSeq(lastCall.out.delivered, Len(InnerOfCall.delivered) + 1,
           Len(lastCall.out.delivered))

\* C19: for a failure caught by wrapErrorHandler the registered handler is
\* called exactly once with an error whose cause is the failure; for an
\* InternalUseSSRComputationError carrying r the wrapper returns r and the
\* error carries r; for any other failure the wrapper returns null and the
\* error carries the call's dependencies and module path. When the wrapped call
\* does not fail the wrapper calls no handler and returns its return value.
C19_WrapperClassifies ==
    (lastCall.op = "server" /\ lastCall.wrapped)
        => IF InnerOfCall.raised
           THEN /\ Len(WrapperDelivered) = 1
                /\ WrapperDelivered[1].handler = lastCall.handler
                /\ WrapperDelivered[1].error.error = InnerOfCall.err
                /\ ~lastCall.out.raised
                /\ IF InnerOfCall.err.cls = "InternalUseSSRComputationError"
                   THEN /\ lastCall.out.ret = InnerOfCall.err.result
                        /\ WrapperDelivered[1].error.result = InnerOfCall.err.result
                   ELSE /\ lastCall.out.ret = Null
                        /\ WrapperDelivered[1].error.dependencies = lastCall.dependencies
                        /\ WrapperDelivered[1].error.ssrComputationFile = lastCall.path
           ELSE /\ WrapperDelivered = <<>>
                /\ lastCall.out.ret = InnerOfCall.ret
                /\ ~lastCall.out.raised

\* the number of errors the last call reported: the orchestrator's report of a
\* thenable result, and the wrapper's report of a failure it caught
ReportsOfCall ==
    (IF ServerRan /\ hasCache /\ lastCall.fn.kind = "thenable" THEN 1 ELSE 0)
        + (IF lastCall.wrapped /\ InnerOfCall.raised THEN 1 ELSE 0)

\* C20: over any interleaving of setErrorHandler calls and orchestrator calls,
\* the handler in force is the one most recently passed to setErrorHandler, and
\* every error a call reported was delivered exactly once, to the handler most
\* recently registered when the call was made: to no replaced handler and to no
\* handler set afterwards.
C20_ErrorsReachCurrentHandler ==
    /\ errorHandler = registered
    /\ lastCall.op = "server"
          => /\ Len(lastCall.out.delivered) = ReportsOfCall
             /\ lastCall.out.logged = <<>>
             /\ \A k \in DOMAIN lastCall.out.delivered :
                    lastCall.out.delivered[k].handler = lastCall.registered

C20_Witness ==
    /\ lastCall.op = "server"
    /\ Len(lastCall.out.delivered) >= 1
    /\ lastCall.registered = "recording"
    /\ registered = "throwing"

\* C21: as long as setErrorHandler has never been called, every error a call
\* reports is logged and the report does not raise: the call that reported
\* returns to its caller, and the log holds one line for each report.
C21_DefaultHandlerLogs ==
    (lastCall.op = "server" /\ ~handlerSet /\ ReportsOfCall >= 1)
        => /\ Len(lastCall.out.logged) = ReportsOfCall
           /\ ~lastCall.out.raised


\* ------------------------------------------------------- claims: client hook
HookKey == ClientKey(hook.props)
HookEntry == CacheLookup(cache, hasCache, HookKey)

\* C1: a mounted instance that at each of its renders had skip false and found
\* an entry at its derived key has, as long as fetchSubscriptions() has not been
\* called, neither called importFn nor invoked the computation function.
C1_CacheHitNeverLoads ==
    (hook.status = "mounted" /\ ~hook.missed /\ ~activated)
        => (~computationLoaded /\ ~called)

\* C2: with an entry {result: v, isSubscription: b} at the derived key and skip
\* false, what the hook returned at its last render (the first one, and a forced
\* re-render) is v.
C2_CachedEntryValueReturned ==
    (hook.status = "mounted" /\ ~hook.props.skip /\ HookEntry.t = "entry")
        => hook.returned = Num(HookEntry.v)

\* C6: an import that completes while its instance is unmounted (or after the
\* effect that started it was torn down) is discarded: the instance's state is
\* not updated and its computation function is not invoked.
C6_StaleImportDiscarded ==
    [][\A k \in DOMAIN imports :
          (ImportResolve(k) /\ (hook.status = "unmounted" \/ ~imports[k].isMounted))
              => (hook' = hook /\ called' = called)]_vars

C6_Witness ==
    /\ hook.status = "unmounted"
    /\ lastOp = "importResolve"
    /\ computationLoaded
    /\ hook.fn = "undefined"

C8_UnmountedStaysInert ==
    /\ [](hook.status = "unmounted" => ~isSubscribed)
    /\ [][(hook.status = "unmounted" /\ hook'.status = "unmounted")
              => (hook' = hook /\ called' = called /\ ~isSubscribed')]_vars

C8_Witness ==
    /\ hook.status = "unmounted"
    /\ hook.fn # "undefined"
    /\ activated
    /\ lastOp = "emit"

\* C10: a mounted instance rendering a cached entry with isSubscription true
\* has, once fetchSubscriptions() was called and nothing is in flight any more
\* (no import, no pending registration), loaded the module and subscribed.
C10_ActivationReloadsCachedSubscription ==
    (/\ hook.status = "mounted" /\ ~hook.missed
     /\ HookEntry.t = "entry" /\ HookEntry.sub
     /\ activated /\ imports = <<>> /\ pending = <<>>)
        => (computationLoaded /\ isSubscribed)

\* C11: a mounted instance whose module is loaded and computed, with no entry
\* in the store, fetchSubscriptions() called and nothing in flight any more,
\* returns the latest value the computation emitted.
C11_EmissionReflected ==
    (/\ hook.status = "mounted" /\ ~hook.props.skip /\ HookEntry = Undefined
     /\ hook.fn # "undefined"
     /\ activated /\ imports = <<>> /\ pending = <<>>)
        => hook.returned = Num(currentValue)

\* C12: a render of a mounted instance invokes the loaded computation function
\* only if the loaded function, the cache key or the skip flag differs from the
\* one the memoized value was computed with; renders with all three unchanged
\* invoke nothing.
C12_MemoizedInvocation ==
    [][(/\ hook.status = "mounted" /\ hook'.status = "mounted"
        /\ hook' # hook /\ hook'.invoked)
           => \/ hook'.memo.fn # hook.memo.fn
              \/ hook'.memo.cacheKey # hook.memo.cacheKey
              \/ hook'.memo.skip # hook.memo.skip]_vars

C12_Witness ==
    /\ hook.status = "mounted" /\ ~hook.props.skip
    /\ lastOp = "rerender"
    /\ called /\ ~hook.invoked
    /\ hook.memo.value.t = "num"
    /\ hook.memo.value # Num(currentValue)

C14_RemountReturnsLastValue ==
    (/\ lastOp = "mount" /\ ~hook.props.skip
     /\ produced.set /\ produced.cacheKey = HookKey)
        => hook.returned = produced.value

\* C15: a render with skip set returns null, invokes nothing, starts no import
\* (none of the instance's imports is live) and subscribes to nothing, whatever
\* the store holds; an instance that was only ever rendered with skip set has
\* never called importFn nor invoked the computation.
C15_SkipDoesNothing ==
    /\ (hook.status = "mounted" /\ hook.props.skip)
          => /\ hook.returned = Null
             /\ ~hook.invoked
             /\ \A k \in DOMAIN imports : ~imports[k].isMounted
             /\ ~isSubscribed
    /\ (hook.status = "mounted" /\ ~hook.unskipped)
          => (~computationLoaded /\ ~called)

C15_Witness ==
    /\ hook.status = "mounted" /\ hook.props.skip /\ ~hook.unskipped
    /\ HookEntry.t = "entry"
    /\ lastOp = "rerender"

\* -------------------------------------------- claims: subscription registry
\* C9: no registration's activate runs more than once, one cancelled while
\* pending never runs, and right after a flush the pending list is empty and
\* each registration the flush found pending has run exactly once.
C9_RegistryFlushOnce ==
    /\ \A r \in Regs : runCount[r] <= 1
    /\ \A r \in cancelled : runCount[r] = 0
    /\ lastFlush.fresh
          => /\ pending = <<>>
             /\ \A k \in DOMAIN lastFlush.list : runCount[lastFlush.list[k]] = 1

C9_Witness ==
    /\ lastFlush.fresh
    /\ Len(lastFlush.list) >= 2
    /\ cancelled # {}
    /\ \E r \in Regs : r <= nextReg /\ r \notin cancelled /\ runCount[r] = 1

\* ---------------------------------------------------------- claims: macro
\* C22: every call the macro rewrote, written with two or with three
\* arguments, on either side, has exactly four arguments: the loader (client)
\* or the imported function (server), the dependencies as written, an options
\* object (the one written, if one was), and the module path relative to the
\* process root.
C22_RewrittenCallHasFourArguments ==
    (transformed.ran /\ ~transformed.threw)
        => \A k \in DOMAIN transformed.calls :
              LET written == transformed.source[k]
                  arguments == transformed.calls[k].arguments
              IN  /\ Len(arguments) = 4
                  /\ arguments[1].type = IF transformed.side = "server" THEN "Identifier"
                                         ELSE "ArrowFunctionExpression"
                  /\ arguments[2] = written[2]
                  /\ arguments[3].type = "ObjectExpression"
                  /\ Len(written) = 3 => arguments[3] = written[3]
                  /\ arguments[4] = StringLiteral(RelativeToCwd(written[1].value))

====
